---------------------------- MODULE Spec2Model ----------------------------
(***************************************************************************)
(* TsQueue<T> (src/src/lib.rs): a two-lock FIFO queue over a singly linked *)
(* list of heap nodes.  `head` and `tail` are two mutex-protected raw      *)
(* pointers.  enqueue writes the value into the node `tail` points to,     *)
(* links a fresh empty node behind it and advances `tail`; dequeue takes   *)
(* the value out of the node `head` points to, advances `head` to its      *)
(* successor and frees the old node.  Every statement that touches shared  *)
(* state is one action, threads interleave between statements.             *)
(*                                                                         *)
(* Heap nodes are numbered in allocation order (1 is the dummy of new()).  *)
(* A number is not handed out again after its node was freed, so that      *)
(* freeCount (how often each allocation was deallocated) and uaf (a freed  *)
(* node was dereferenced) are exact.  The program cannot observe the       *)
(* difference to an allocator that re-uses addresses as long as it never   *)
(* compares or dereferences a pointer to a freed node, which ~uaf and the  *)
(* reachability part of C7 establish for every reachable state.            *)
(***************************************************************************)
EXTENDS Naturals, Sequences, FiniteSets, TLC

\* ------------------------------------------------------------------ bounds
NThreads == 3          \* threads sharing one queue
MaxEnq   == 2          \* enqueue calls in one behaviour of concurrent threads
MaxLog   == 7          \* calls made (and recorded) by the single-threaded client
NumVals  == 2          \* payload values 1..NumVals
NumItems == 3          \* values 0..NumItems-1 sent by the producer of the producer/consumer pair
NumRunners == 3        \* threads of the fairly scheduled client
MaxRunEnq  == 2        \* enqueue calls in one behaviour of the fairly scheduled client

Threads == 1..NThreads
Vals    == 1..NumVals

\* ------------------------------------------------------- Option<T> encoding
\* Option<X> is a sequence of length at most one.
None    == << >>
Some(x) == << x >>

VARIABLES
    data,        \* Node.data  : node -> Option<T>
    next,        \* Node.next  : node -> Option<node>
    freeCount,   \* node -> number of times its Box was dropped (deallocated)
    head,        \* TsQueue.head : the pointer inside the head mutex
    tail,        \* TsQueue.tail : the pointer inside the tail mutex
    headLock,    \* holder of the head mutex (None: free)
    tailLock,    \* holder of the tail mutex (None: free)
    poisoned,    \* [head, tail] -> BOOLEAN : std::sync::Mutex poisoning
    pc,          \* thread -> position in enqueue / dequeue
    loc,         \* thread -> the locals of the running call
    queue,       \* "alive" | "dropping" | "dropped" | "panicked" (impl Drop for TsQueue)
    x,           \* the local `x` of TsQueue::drop
    uaf,         \* a freed node was dereferenced
    panicMsg,    \* set of expect()/unwrap() messages that fired
    enqStarted,  \* history: values in the order enqueue was called
    enqOrder,    \* history: values in the order enqueues acquired the tail mutex
    deqOrder,    \* history: values in the order dequeues took them under the head mutex
    client,      \* who uses the queue: "threads" | "single" (keeps a log) | "pair" (producer, consumer)
                 \*   | "runners" (threads under fair scheduling)
    log          \* history: the calls that returned, in order, with their results

vars == << data, next, freeCount, head, tail, headLock, tailLock, poisoned, pc,
           loc, queue, x, uaf, panicMsg, enqStarted, enqOrder, deqOrder,
           client, log >>

heapVars == << data, next, freeCount >>
histVars == << enqStarted, enqOrder, deqOrder, client, log >>
dropVars == << queue, x >>

Nodes == DOMAIN freeCount

\* The locals of enqueue (arg: the parameter `data`, node) and of dequeue
\* (tail_ptr: the result of get_tail_ptr, head_box, data, new_head), and two
\* observations made at the read of tail: sawEmpty (head = tail held then) and
\* pending (values enqueued and not yet handed out then).
NoLocals == [arg |-> None, node |-> None, tail_ptr |-> None, head_box |-> None,
             data |-> None, new_head |-> None, sawEmpty |-> FALSE, pending |-> 0]

\* --------------------------------------------------------------- Node<T>
\* Node::new(): Box::leak(Box::new(Node { data: None, next: None }))
NodeNew == Cardinality(Nodes) + 1

\* impl Drop for Node, as run by dropping a Box<Node>: Node::drop first
\* releases the Box behind self.next when the link is still present (and so
\* on along the chain), then the node itself is deallocated.  The result is
\* the new freeCount.  `depth` bounds the walk by the number of nodes.
RECURSIVE NodeDrop(_, _, _, _)
NodeDrop(fc, nx, n, depth) ==
    LET inner == IF nx[n] # None /\ depth > 0
                 THEN NodeDrop(fc, nx, nx[n][1], depth - 1)
                 ELSE fc
    IN  [inner EXCEPT ![n] = @ + 1]

BoxDrop(n) == NodeDrop(freeCount, next, n, Cardinality(Nodes))

\* Dereferencing node n is a use after free when its Box was already dropped.
Dangling(n) == freeCount[n] > 0

\* Mutant of TsQueue_new: head and tail get a dummy node each (Node::new() is
\* called twice), the two nodes are not linked.
TsQueue_new_two_nodes ==
    /\ data = (1 :> None) @@ (2 :> None)
    /\ next = (1 :> None) @@ (2 :> None)
    /\ freeCount = (1 :> 0) @@ (2 :> 0)
    /\ head = 1
    /\ tail = 2
    /\ headLock = None
    /\ tailLock = None
    /\ poisoned = [head |-> FALSE, tail |-> FALSE]
    /\ pc = [t \in Threads |-> "idle"]
    /\ loc = [t \in Threads |-> NoLocals]
    /\ queue = "alive"
    /\ x = None
    /\ uaf = FALSE
    /\ panicMsg = {}
    /\ enqStarted = << >>
    /\ enqOrder = << >>
    /\ deqOrder = << >>
    /\ log = << >>

\* ------------------------------------------------------------ TsQueue::new
\* line 42-50: one dummy node, referenced by both head and tail; nothing is
\* locked, no call is running.
TsQueue_new ==
    /\ data = (1 :> None)
    /\ next = (1 :> None)
    /\ freeCount = (1 :> 0)
    /\ head = 1
    /\ tail = 1
    /\ headLock = None
    /\ tailLock = None
    /\ poisoned = [head |-> FALSE, tail |-> FALSE]
    /\ pc = [t \in Threads |-> "idle"]
    /\ loc = [t \in Threads |-> NoLocals]
    /\ queue = "alive"
    /\ x = None
    /\ uaf = FALSE
    /\ panicMsg = {}
    /\ enqStarted = << >>
    /\ enqOrder = << >>
    /\ deqOrder = << >>
    /\ log = << >>

Init == TsQueue_new /\ client = "threads"

\* A thread may start a call while the queue is owned by nobody's drop.
CanCall(t) == pc[t] = "idle" /\ queue = "alive" /\ Len(log) < MaxLog

\* Enqueue calls in one behaviour: the single client is bounded by its log,
\* the producer by the number of values it sends.
EnqLimit == CASE client = "single" -> MaxLog
              [] client = "pair"   -> NumItems
              [] client = "runners" -> MaxRunEnq
              [] OTHER             -> MaxEnq

\* The client's log after a call returned.
Logged(op, val) == IF client = "single" THEN Append(log, [op |-> op, val |-> val]) ELSE log

\* Unwinding out of a call after expect() failed with message m: the thread
\* is gone; a MutexGuard dropped while panicking poisons its mutex.
Panicked(t, m) ==
    /\ pc' = [pc EXCEPT ![t] = "panicked"]
    /\ loc' = [loc EXCEPT ![t] = NoLocals]
    /\ panicMsg' = panicMsg \cup {m}

\* ------------------------------------------------------- TsQueue::enqueue
\* Mutant of enqueue_Node_new: the value is put into the fresh node when it is
\* constructed (Node { data: Some(data), next: None }).
enqueue_Node_new_filled(t, v) ==
    /\ CanCall(t)
    /\ Len(enqStarted) < EnqLimit
    /\ LET n == NodeNew IN
        /\ data' = data @@ (n :> Some(v))
        /\ next' = next @@ (n :> None)
        /\ freeCount' = freeCount @@ (n :> 0)
        /\ loc' = [loc EXCEPT ![t] = [NoLocals EXCEPT !.arg = Some(v), !.node = Some(n)]]
    /\ pc' = [pc EXCEPT ![t] = "enq_lock_tail"]
    /\ enqStarted' = Append(enqStarted, v)
    /\ UNCHANGED << head, tail, headLock, tailLock, poisoned, dropVars, uaf,
                    panicMsg, enqOrder, deqOrder, client, log >>

\* line 53-54: let node = Node::new(); let new_tail = node;
enqueue_Node_new(t, v) ==
    /\ CanCall(t)
    /\ Len(enqStarted) < EnqLimit
    /\ LET n == NodeNew IN
        /\ data' = data @@ (n :> None)
        /\ next' = next @@ (n :> None)
        /\ freeCount' = freeCount @@ (n :> 0)
        /\ loc' = [loc EXCEPT ![t] = [NoLocals EXCEPT !.arg = Some(v), !.node = Some(n)]]
    /\ pc' = [pc EXCEPT ![t] = "enq_lock_tail"]
    /\ enqStarted' = Append(enqStarted, v)
    /\ UNCHANGED << head, tail, headLock, tailLock, poisoned, dropVars, uaf,
                    panicMsg, enqOrder, deqOrder, client, log >>

\* Mutant of enqueue_lock_tail: one lock for both ends, the enqueue also
\* waits for the head mutex to be free.
enqueue_lock_tail_and_head(t) ==
    /\ pc[t] = "enq_lock_tail"
    /\ tailLock = None
    /\ headLock = None
    /\ tailLock' = Some(t)
    /\ pc' = [pc EXCEPT ![t] = "enq_write_data"]
    /\ enqOrder' = Append(enqOrder, loc[t].arg[1])
    /\ UNCHANGED << heapVars, head, tail, headLock, poisoned, loc, dropVars, uaf,
                    panicMsg, enqStarted, deqOrder, client, log >>

\* Mutant of enqueue_lock_tail: the critical section is entered without
\* waiting for the tail mutex.
enqueue_lock_tail_unguarded(t) ==
    /\ pc[t] = "enq_lock_tail"
    /\ tailLock' = Some(t)
    /\ pc' = [pc EXCEPT ![t] = "enq_write_data"]
    /\ enqOrder' = Append(enqOrder, loc[t].arg[1])
    /\ UNCHANGED << heapVars, head, tail, headLock, poisoned, loc, dropVars, uaf,
                    panicMsg, enqStarted, deqOrder, client, log >>

\* line 55: let mut tail = self.tail.lock().expect("Unable to lock tail mutex");
enqueue_lock_tail(t) ==
    /\ pc[t] = "enq_lock_tail"
    /\ tailLock = None
    /\ IF poisoned.tail
       THEN /\ Panicked(t, "Unable to lock tail mutex")
            /\ UNCHANGED << tailLock, enqOrder >>
       ELSE /\ tailLock' = Some(t)
            /\ pc' = [pc EXCEPT ![t] = "enq_write_data"]
            /\ enqOrder' = Append(enqOrder, loc[t].arg[1])
            /\ UNCHANGED << loc, panicMsg >>
    /\ UNCHANGED << heapVars, head, tail, headLock, poisoned, dropVars, uaf,
                    enqStarted, deqOrder, client, log >>

\* Mutant of enqueue_write_data: the value is not stored at all.
enqueue_skip_write_data(t) ==
    /\ pc[t] = "enq_write_data"
    /\ pc' = [pc EXCEPT ![t] = "enq_write_next"]
    /\ UNCHANGED << heapVars, head, tail, headLock, tailLock, poisoned, loc, dropVars,
                    uaf, panicMsg, histVars >>

\* Mutant of enqueue_write_data: the value is stored in the fresh node instead
\* of the node tail points to.
enqueue_write_data_new_node(t) ==
    /\ pc[t] = "enq_write_data"
    /\ data' = [data EXCEPT ![loc[t].node[1]] = loc[t].arg]
    /\ uaf' = (uaf \/ Dangling(tail))
    /\ pc' = [pc EXCEPT ![t] = "enq_write_next"]
    /\ UNCHANGED << next, freeCount, head, tail, headLock, tailLock, poisoned, loc,
                    dropVars, panicMsg, histVars >>

\* line 57: tail.as_mut().data = Some(data);
enqueue_write_data(t) ==
    /\ pc[t] = "enq_write_data"
    /\ data' = [data EXCEPT ![tail] = loc[t].arg]
    /\ uaf' = (uaf \/ Dangling(tail))
    /\ pc' = [pc EXCEPT ![t] = "enq_write_next"]
    /\ UNCHANGED << next, freeCount, head, tail, headLock, tailLock, poisoned, loc,
                    dropVars, panicMsg, histVars >>

\* Mutant of enqueue_write_next: the fresh node is not linked behind the old
\* tail node.
enqueue_skip_next(t) ==
    /\ pc[t] = "enq_write_next"
    /\ pc' = [pc EXCEPT ![t] = "enq_set_tail"]
    /\ UNCHANGED << heapVars, head, tail, headLock, tailLock, poisoned, loc, dropVars,
                    uaf, panicMsg, histVars >>

\* line 58: tail.as_mut().next = Some(node);
enqueue_write_next(t) ==
    /\ pc[t] = "enq_write_next"
    /\ next' = [next EXCEPT ![tail] = loc[t].node]
    /\ uaf' = (uaf \/ Dangling(tail))
    /\ pc' = [pc EXCEPT ![t] = "enq_set_tail"]
    /\ UNCHANGED << data, freeCount, head, tail, headLock, tailLock, poisoned, loc,
                    dropVars, panicMsg, histVars >>

\* Mutant of enqueue_set_tail: the tail cursor is not advanced.
enqueue_keep_tail(t) ==
    /\ pc[t] = "enq_set_tail"
    /\ pc' = [pc EXCEPT ![t] = "enq_return"]
    /\ UNCHANGED << heapVars, head, tail, headLock, tailLock, poisoned, loc, dropVars,
                    uaf, panicMsg, histVars >>

\* line 60: *tail = new_tail;
enqueue_set_tail(t) ==
    /\ pc[t] = "enq_set_tail"
    /\ tail' = loc[t].node[1]
    /\ pc' = [pc EXCEPT ![t] = "enq_return"]
    /\ UNCHANGED << heapVars, head, headLock, tailLock, poisoned, loc, dropVars,
                    uaf, panicMsg, histVars >>

\* Mutant of enqueue_return: the guard is leaked (mem::forget), enqueue
\* returns with the tail mutex still locked.
enqueue_return_locked(t) ==
    /\ pc[t] = "enq_return"
    /\ pc' = [pc EXCEPT ![t] = "idle"]
    /\ log' = Logged("enqueue", loc[t].arg)
    /\ loc' = [loc EXCEPT ![t] = NoLocals]
    /\ UNCHANGED << heapVars, head, tail, headLock, tailLock, poisoned, dropVars, uaf,
                    panicMsg, enqStarted, enqOrder, deqOrder, client >>

\* line 61: the guard `tail` goes out of scope, enqueue returns ().
enqueue_return(t) ==
    /\ pc[t] = "enq_return"
    /\ tailLock' = None
    /\ pc' = [pc EXCEPT ![t] = "idle"]
    /\ log' = Logged("enqueue", loc[t].arg)
    /\ loc' = [loc EXCEPT ![t] = NoLocals]
    /\ UNCHANGED << heapVars, head, tail, headLock, poisoned, dropVars, uaf,
                    panicMsg, enqStarted, enqOrder, deqOrder, client >>

\* the steps of a running enqueue
enqueue_steps(t) ==
    \/ enqueue_lock_tail(t)
    \/ enqueue_write_data(t)
    \/ enqueue_write_next(t)
    \/ enqueue_set_tail(t)
    \/ enqueue_return(t)

enqueue(t) ==
    \/ \E v \in Vals : enqueue_Node_new(t, v)
    \/ enqueue_steps(t)

\* ------------------------------------------------------- TsQueue::dequeue
\* line 63: dequeue(&self) is entered.
dequeue_call(t) ==
    /\ CanCall(t)
    /\ pc' = [pc EXCEPT ![t] = "deq_lock_head"]
    /\ loc' = [loc EXCEPT ![t] = NoLocals]
    /\ UNCHANGED << heapVars, head, tail, headLock, tailLock, poisoned, dropVars,
                    uaf, panicMsg, histVars >>

\* Mutant of dequeue_lock_head: dequeue goes on without waiting for the head
\* mutex.
dequeue_lock_head_unguarded(t) ==
    /\ pc[t] = "deq_lock_head"
    /\ headLock' = Some(t)
    /\ pc' = [pc EXCEPT ![t] = "deq_lock_tail"]
    /\ UNCHANGED << heapVars, head, tail, tailLock, poisoned, loc, dropVars, uaf,
                    panicMsg, histVars >>

\* line 64: let mut head = self.head.lock().expect("Unable to lock head");
dequeue_lock_head(t) ==
    /\ pc[t] = "deq_lock_head"
    /\ headLock = None
    /\ IF poisoned.head
       THEN /\ Panicked(t, "Unable to lock head")
            /\ UNCHANGED headLock
       ELSE /\ headLock' = Some(t)
            /\ pc' = [pc EXCEPT ![t] = "deq_lock_tail"]
            /\ UNCHANGED << loc, panicMsg >>
    /\ UNCHANGED << heapVars, head, tail, tailLock, poisoned, dropVars, uaf,
                    histVars >>

\* line 76 (get_tail_ptr, called from line 65): self.tail.lock().expect("Unable to lock tail")
\* A failed expect unwinds through dequeue, whose head guard poisons the head mutex.
get_tail_ptr_lock(t) ==
    /\ pc[t] = "deq_lock_tail"
    /\ tailLock = None
    /\ IF poisoned.tail
       THEN /\ Panicked(t, "Unable to lock tail")
            /\ headLock' = None
            /\ poisoned' = [poisoned EXCEPT !.head = TRUE]
            /\ UNCHANGED tailLock
       ELSE /\ tailLock' = Some(t)
            /\ pc' = [pc EXCEPT ![t] = "deq_read_tail"]
            /\ UNCHANGED << loc, panicMsg, headLock, poisoned >>
    /\ UNCHANGED << heapVars, head, tail, dropVars, uaf, histVars >>

\* line 76-77: .as_ptr() copies the pointer out of the guard, the temporary
\* guard is dropped when get_tail_ptr returns.  sawEmpty and pending record
\* what was true at this instant.
get_tail_ptr_return(t) ==
    /\ pc[t] = "deq_read_tail"
    /\ loc' = [loc EXCEPT ![t].tail_ptr = Some(tail),
                          ![t].sawEmpty = (head = tail),
                          ![t].pending = Len(enqOrder) - Len(deqOrder)]
    /\ tailLock' = None
    /\ pc' = [pc EXCEPT ![t] = "deq_ptr_eq"]
    /\ UNCHANGED << heapVars, head, tail, headLock, poisoned, dropVars, uaf,
                    panicMsg, histVars >>

\* Mutant of dequeue_ptr_eq: the emptiness check is missing, dequeue always
\* goes on to extract the head node.
dequeue_skip_ptr_eq(t) ==
    /\ pc[t] = "deq_ptr_eq"
    /\ pc' = [pc EXCEPT ![t] = "deq_take_data"]
    /\ UNCHANGED << heapVars, head, tail, headLock, tailLock, poisoned, loc, dropVars,
                    uaf, panicMsg, histVars >>

\* Mutant of dequeue_ptr_eq: the queue is always taken to be empty.
dequeue_ptr_eq_always(t) ==
    /\ pc[t] = "deq_ptr_eq"
    /\ pc' = [pc EXCEPT ![t] = "deq_return_none"]
    /\ UNCHANGED << heapVars, head, tail, headLock, tailLock, poisoned, loc, dropVars,
                    uaf, panicMsg, histVars >>

\* Mutant of dequeue_ptr_eq: emptiness is decided by the head node alone (it
\* has no successor), not by comparing head with the tail pointer.
dequeue_check_next(t) ==
    /\ pc[t] = "deq_ptr_eq"
    /\ pc' = [pc EXCEPT ![t] = IF next[head] = None
                               THEN "deq_return_none" ELSE "deq_take_data"]
    /\ UNCHANGED << heapVars, head, tail, headLock, tailLock, poisoned, loc, dropVars,
                    uaf, panicMsg, histVars >>

\* Mutant of dequeue_ptr_eq: the comparison is inverted.
dequeue_ptr_ne(t) ==
    /\ pc[t] = "deq_ptr_eq"
    /\ pc' = [pc EXCEPT ![t] = IF Some(head) # loc[t].tail_ptr
                               THEN "deq_return_none" ELSE "deq_take_data"]
    /\ UNCHANGED << heapVars, head, tail, headLock, tailLock, poisoned, loc, dropVars,
                    uaf, panicMsg, histVars >>

\* line 65: if ptr::eq(head.as_ptr(), self.get_tail_ptr())
dequeue_ptr_eq(t) ==
    /\ pc[t] = "deq_ptr_eq"
    /\ pc' = [pc EXCEPT ![t] = IF Some(head) = loc[t].tail_ptr
                               THEN "deq_return_none" ELSE "deq_take_data"]
    /\ UNCHANGED << heapVars, head, tail, headLock, tailLock, poisoned, loc, dropVars,
                    uaf, panicMsg, histVars >>

\* line 66: return None;  (the head guard is dropped)
dequeue_return_none(t) ==
    /\ pc[t] = "deq_return_none"
    /\ headLock' = None
    /\ pc' = [pc EXCEPT ![t] = "idle"]
    /\ log' = Logged("dequeue", None)
    /\ loc' = [loc EXCEPT ![t] = NoLocals]
    /\ UNCHANGED << heapVars, head, tail, tailLock, poisoned, dropVars, uaf, panicMsg,
                    enqStarted, enqOrder, deqOrder, client >>

\* Mutant of dequeue_take_data: the payload is taken from the successor of
\* the head node instead of the head node.
dequeue_take_data_successor(t) ==
    /\ pc[t] = "deq_take_data"
    /\ LET succ == IF next[head] = None THEN head ELSE next[head][1] IN
        /\ loc' = [loc EXCEPT ![t].head_box = Some(head), ![t].data = data[succ]]
        /\ data' = [data EXCEPT ![succ] = None]
        /\ deqOrder' = deqOrder \o data[succ]
    /\ uaf' = (uaf \/ Dangling(head))
    /\ pc' = [pc EXCEPT ![t] = "deq_take_next"]
    /\ UNCHANGED << next, freeCount, head, tail, headLock, tailLock, poisoned,
                    dropVars, panicMsg, enqStarted, enqOrder, client, log >>

\* line 68-69: let mut head_box = Box::from_raw(head.as_ptr());
\*             let data = head_box.data.take();
dequeue_take_data(t) ==
    /\ pc[t] = "deq_take_data"
    /\ loc' = [loc EXCEPT ![t].head_box = Some(head), ![t].data = data[head]]
    /\ data' = [data EXCEPT ![head] = None]
    /\ deqOrder' = deqOrder \o data[head]
    /\ uaf' = (uaf \/ Dangling(head))
    /\ pc' = [pc EXCEPT ![t] = "deq_take_next"]
    /\ UNCHANGED << next, freeCount, head, tail, headLock, tailLock, poisoned,
                    dropVars, panicMsg, enqStarted, enqOrder, client, log >>

\* Mutant of dequeue_take_next: the link is copied out of head_box.next and
\* not taken, so head_box still links to its successor when it is dropped.
dequeue_copy_next(t) ==
    /\ pc[t] = "deq_take_next"
    /\ LET hb == loc[t].head_box[1] IN
       IF next[hb] = None
       THEN /\ Panicked(t, "head != tail but head.next is empty")
            /\ freeCount' = BoxDrop(hb)
            /\ headLock' = None
            /\ poisoned' = [poisoned EXCEPT !.head = TRUE]
       ELSE /\ loc' = [loc EXCEPT ![t].new_head = next[hb]]
            /\ pc' = [pc EXCEPT ![t] = "deq_set_head"]
            /\ UNCHANGED << freeCount, headLock, poisoned, panicMsg >>
    /\ uaf' = (uaf \/ Dangling(loc[t].head_box[1]))
    /\ UNCHANGED << data, next, head, tail, tailLock, dropVars, histVars >>

\* line 70: let new_head = head_box.next.take().expect("head != tail but head.next is empty");
\* When the expect fails, unwinding drops head_box (the node is freed while
\* self.head still points to it) and then the head guard, poisoning the mutex.
dequeue_take_next(t) ==
    /\ pc[t] = "deq_take_next"
    /\ LET hb == loc[t].head_box[1] IN
       IF next[hb] = None
       THEN /\ Panicked(t, "head != tail but head.next is empty")
            /\ freeCount' = BoxDrop(hb)
            /\ headLock' = None
            /\ poisoned' = [poisoned EXCEPT !.head = TRUE]
            /\ UNCHANGED next
       ELSE /\ loc' = [loc EXCEPT ![t].new_head = next[hb]]
            /\ next' = [next EXCEPT ![hb] = None]
            /\ pc' = [pc EXCEPT ![t] = "deq_set_head"]
            /\ UNCHANGED << freeCount, headLock, poisoned, panicMsg >>
    /\ uaf' = (uaf \/ Dangling(loc[t].head_box[1]))
    /\ UNCHANGED << data, head, tail, tailLock, dropVars, histVars >>

\* Mutant of dequeue_set_head: the head cursor is not advanced to the
\* successor of the extracted node.
dequeue_keep_head(t) ==
    /\ pc[t] = "deq_set_head"
    /\ pc' = [pc EXCEPT ![t] = "deq_drop_head_box"]
    /\ UNCHANGED << heapVars, head, tail, headLock, tailLock, poisoned, loc, dropVars,
                    uaf, panicMsg, histVars >>

\* line 71: *head = new_head;
dequeue_set_head(t) ==
    /\ pc[t] = "deq_set_head"
    /\ head' = loc[t].new_head[1]
    /\ pc' = [pc EXCEPT ![t] = "deq_drop_head_box"]
    /\ UNCHANGED << heapVars, tail, headLock, tailLock, poisoned, loc, dropVars,
                    uaf, panicMsg, histVars >>

\* line 73, end of scope: head_box is dropped first (declared last) ...
dequeue_drop_head_box(t) ==
    /\ pc[t] = "deq_drop_head_box"
    /\ freeCount' = BoxDrop(loc[t].head_box[1])
    /\ loc' = [loc EXCEPT ![t].head_box = None]
    /\ pc' = [pc EXCEPT ![t] = "deq_return"]
    /\ UNCHANGED << data, next, head, tail, headLock, tailLock, poisoned,
                    dropVars, uaf, panicMsg, histVars >>

\* line 72-73: ... then the head guard; `data` is the value of the call.
dequeue_return(t) ==
    /\ pc[t] = "deq_return"
    /\ headLock' = None
    /\ pc' = [pc EXCEPT ![t] = "idle"]
    /\ log' = Logged("dequeue", loc[t].data)
    /\ loc' = [loc EXCEPT ![t] = NoLocals]
    /\ UNCHANGED << heapVars, head, tail, tailLock, poisoned, dropVars, uaf, panicMsg,
                    enqStarted, enqOrder, deqOrder, client >>

\* the steps of a running dequeue
dequeue_steps(t) ==
    \/ dequeue_lock_head(t)
    \/ get_tail_ptr_lock(t)
    \/ get_tail_ptr_return(t)
    \/ dequeue_ptr_eq(t)
    \/ dequeue_return_none(t)
    \/ dequeue_take_data(t)
    \/ dequeue_take_next(t)
    \/ dequeue_set_head(t)
    \/ dequeue_drop_head_box(t)
    \/ dequeue_return(t)

dequeue(t) ==
    \/ dequeue_call(t)
    \/ dequeue_steps(t)

\* --------------------------------------------------- impl Drop for TsQueue
\* The queue can be dropped only by its owner, when no call borrows it.
NoCallRunning == \A t \in Threads : pc[t] \in {"idle", "panicked"}

\* Mutant of drop_from_raw_head: the destructor drops the Box of the head
\* node and leaves the rest of the chain to the recursion of Node::drop.
drop_head_box_directly ==
    /\ queue = "alive"
    /\ NoCallRunning
    /\ queue' = "dropped"
    /\ x' = None
    /\ freeCount' = BoxDrop(head)
    /\ UNCHANGED << data, next, head, tail, headLock, tailLock, poisoned, pc, loc,
                    uaf, panicMsg, histVars >>

\* line 11: let mut x = Box::from_raw(self.head.get_mut().unwrap().as_ptr());
\* get_mut() on a poisoned mutex is an Err, and unwrap() panics.
drop_from_raw_head ==
    /\ queue = "alive"
    /\ NoCallRunning
    /\ IF poisoned.head
       THEN /\ queue' = "panicked"
            /\ panicMsg' = panicMsg \cup {"unwrap on a poisoned head mutex"}
            /\ UNCHANGED x
       ELSE /\ queue' = "dropping"
            /\ x' = Some(head)
            /\ UNCHANGED panicMsg
    /\ UNCHANGED << heapVars, head, tail, headLock, tailLock, poisoned, pc, loc,
                    uaf, histVars >>

\* Mutant of drop_take_next: the loop reads x.next without taking it, so the
\* Box dropped by the assignment still links to the rest of the chain.
drop_read_next ==
    /\ queue = "dropping"
    /\ next[x[1]] # None
    /\ x' = next[x[1]]
    /\ freeCount' = BoxDrop(x[1])
    /\ uaf' = (uaf \/ Dangling(x[1]))
    /\ UNCHANGED << data, next, head, tail, headLock, tailLock, poisoned, pc, loc,
                    queue, panicMsg, histVars >>

\* line 12-14: while let Some(next) = x.next.take() { x = Box::from_raw(next.as_ptr()); }
\* The assignment drops the Box that x held, whose next was just taken.
drop_take_next ==
    /\ queue = "dropping"
    /\ next[x[1]] # None
    /\ LET old == x[1]
           nx  == [next EXCEPT ![old] = None]
       IN  /\ next' = nx
           /\ x' = next[old]
           /\ freeCount' = NodeDrop(freeCount, nx, old, Cardinality(Nodes))
    /\ uaf' = (uaf \/ Dangling(x[1]))
    /\ UNCHANGED << data, head, tail, headLock, tailLock, poisoned, pc, loc,
                    queue, panicMsg, histVars >>

\* line 12, 15: x.next.take() is None, the loop ends and x is dropped.
drop_last ==
    /\ queue = "dropping"
    /\ next[x[1]] = None
    /\ freeCount' = BoxDrop(x[1])
    /\ x' = None
    /\ queue' = "dropped"
    /\ uaf' = (uaf \/ Dangling(x[1]))
    /\ UNCHANGED << data, next, head, tail, headLock, tailLock, poisoned, pc, loc,
                    panicMsg, histVars >>

drop ==
    \/ drop_from_raw_head
    \/ drop_take_next
    \/ drop_last

\* ------------------------------------------------------------ specifications
\* Any thread calls enqueue or dequeue at any time; the owner drops the queue
\* when no call is running.
Next ==
    \/ \E t \in Threads : enqueue(t)
    \/ \E t \in Threads : dequeue(t)
    \/ drop

Spec == Init /\ [][Next]_vars

\* tests::single_threaded (line 85-99), generalised: one thread makes any
\* sequence of calls and records each call and its result; the queue is
\* dropped at the end.
InitSeq == TsQueue_new /\ client = "single"

NextSeq ==
    \/ \E t \in {1} : enqueue(t)
    \/ \E t \in {1} : dequeue(t)
    \/ drop

SpecSeq == InitSeq /\ [][NextSeq]_vars

\* tests::multi_threaded (line 101-127): rayon::join of a producer that
\* enqueues 0, 1, .., LastVal in order and a consumer that calls dequeue in a
\* loop until it has received LastVal; data_recv is deqOrder.  The queue is
\* dropped after the join.
InitPC   == TsQueue_new /\ client = "pair"
LastVal  == NumItems - 1
Expected == [i \in 1..NumItems |-> i - 1]
Received == \E i \in 1..Len(deqOrder) : deqOrder[i] = LastVal

producer(t) ==
    \/ enqueue_Node_new(t, Len(enqStarted))
    \/ enqueue_steps(t)

consumer(t) ==
    \/ ~Received /\ dequeue_call(t)
    \/ dequeue_steps(t)

Joined == Len(enqStarted) = NumItems /\ Received /\ NoCallRunning

NextPC ==
    \/ \E t \in {1} : producer(t)
    \/ \E t \in {2} : consumer(t)
    \/ Joined /\ drop

SpecPC == InitPC /\ [][NextPC]_vars

\* The queue under fair scheduling, used either by the producer/consumer pair
\* of tests::multi_threaded or by Runners threads that each call enqueue and
\* dequeue at will, the values enqueued being 0, 1, .. in the order of the calls.
Runners == 1..NumRunners

InitLive == TsQueue_new /\ client \in {"pair", "runners"}

NextRunners ==
    \/ \E t \in Runners : producer(t)
    \/ \E t \in Runners : dequeue(t)
    \/ drop

NextLive ==
    \/ client = "pair" /\ NextPC
    \/ client = "runners" /\ NextRunners

\* the next step of the call that thread t is in
call_step(t) == enqueue_steps(t) \/ dequeue_steps(t)

\* A thread inside a call keeps running: weak fairness of each thread's
\* steps.  A thread that waits in Mutex::lock (line 55, 64, 76) takes the
\* mutex when it stays free; std::sync::Mutex promises no more, so a waiting
\* thread is not protected against others taking and releasing the mutex
\* again and again.
FairCalls == \A t \in Runners : WF_vars(call_step(t))

\* The clients keep going: the producer sends its next value (line 108-110),
\* the consumer calls dequeue until it has received LastVal (line 115-121),
\* and among the runners some thread calls dequeue while the queue is alive.
FairClients ==
    /\ WF_vars(client = "pair" /\ enqueue_Node_new(1, Len(enqStarted)))
    /\ WF_vars(client = "pair" /\ ~Received /\ dequeue_call(2))
    /\ WF_vars(client = "runners" /\ \E t \in Runners : dequeue_call(t))

SpecLive == InitLive /\ [][NextLive]_vars /\ FairCalls /\ FairClients

\* ------------------------------------------------------------------ helpers
IsPrefix(s, q) == Len(s) <= Len(q) /\ \A i \in 1..Len(s) : s[i] = q[i]

CountIn(s, v) == Cardinality({i \in 1..Len(s) : s[i] = v})

Range(s) == {s[i] : i \in 1..Len(s)}

\* The nodes reachable from n by following next (n included).
RECURSIVE ReachFrom(_, _)
ReachFrom(n, depth) ==
    {n} \cup (IF next[n] # None /\ depth > 0 THEN ReachFrom(next[n][1], depth - 1) ELSE {})

Reach(n) == ReachFrom(n, Cardinality(Nodes))

Freed == {n \in Nodes : freeCount[n] > 0}

EnqPcs == {"enq_lock_tail", "enq_write_data", "enq_write_next", "enq_set_tail", "enq_return"}
DeqPcs == {"deq_lock_head", "deq_lock_tail", "deq_read_tail", "deq_ptr_eq", "deq_return_none",
           "deq_take_data", "deq_take_next", "deq_set_head", "deq_drop_head_box", "deq_return"}

\* In the log, the queue is logically empty after the first i calls: as many
\* values were handed out as were enqueued (i = 0: freshly constructed).
EmptyAfter(i) ==
    Cardinality({k \in 1..i : log[k].op = "enqueue"})
      = Cardinality({k \in 1..i : log[k].op = "dequeue" /\ log[k].val # None})

\* The calls i+1 .. i+n of the log are enqueues and i+n+1 .. i+2n are dequeues.
EnqThenDeq(i, n) ==
    /\ i + 2 * n <= Len(log)
    /\ \A k \in 1..n : log[i + k].op = "enqueue"
    /\ \A k \in 1..n : log[i + n + k].op = "dequeue"

\* ------------------------------------------------------------------- claims

\* C1: single-threaded FIFO.  Whenever one thread, starting from a logically
\* empty queue (fresh or drained), has made n enqueue calls followed by n
\* dequeue calls, the k-th of these dequeues returned the value of the k-th
\* of these enqueues, for every k.
C1_SingleThreadedFifo ==
    \A i \in 0..Len(log) : \A n \in 0..Len(log) :
        (EmptyAfter(i) /\ EnqThenDeq(i, n))
            => \A k \in 1..n : log[i + n + k].val = log[i + k].val

\* C1 witness: after an enqueue/dequeue pair has drained the queue, two
\* different values were enqueued and then two dequeues returned.
C1_Witness ==
    /\ Len(log) >= 6
    /\ EmptyAfter(2) /\ log[1].op = "enqueue"
    /\ EnqThenDeq(2, 2)
    /\ log[3].val # log[4].val
    /\ log[5].val # None /\ log[6].val # None

\* the single client is inside a dequeue call
SeqInDequeue == \E t \in Threads : pc[t] \in DeqPcs

\* C2: empty-queue contract.  For one thread: a dequeue made when the queue
\* is logically empty (fresh, or as many successful dequeues as enqueues)
\* returns None, takes only the return-None path (it never extracts a node
\* and never panics), and no step of it changes the head or tail cursor.
C2_EmptyQueueContract ==
    /\ [](\A i \in 0..(Len(log) - 1) :
            (EmptyAfter(i) /\ log[i + 1].op = "dequeue") => log[i + 1].val = None)
    /\ [](EmptyAfter(Len(log)) =>
            \A t \in Threads : pc[t] \in {"idle"} \cup EnqPcs \cup
                {"deq_lock_head", "deq_lock_tail", "deq_read_tail", "deq_ptr_eq",
                 "deq_return_none"})
    /\ [][(SeqInDequeue /\ EmptyAfter(Len(log))) => (head' = head /\ tail' = tail)]_vars

\* C2 witness: an enqueue and a successful dequeue have drained the queue and
\* a further dequeue then returned None.
C2_Witness ==
    /\ Len(log) >= 3
    /\ log[1].op = "enqueue"
    /\ log[2].op = "dequeue" /\ log[2].val # None
    /\ log[3].op = "dequeue" /\ log[3].val = None
    /\ head = tail /\ head # 1

\* C3: one producer, one consumer.  In every interleaving what the consumer
\* has received so far is a prefix of 0, 1, .., LastVal, and once it has seen
\* LastVal (its loop ends) it has received exactly 0, 1, .., LastVal.
C3_ProducerConsumer ==
    /\ IsPrefix(deqOrder, Expected)
    /\ Received => deqOrder = Expected

\* C3 witness: the consumer returns from a dequeue having received 0 and 1
\* while the producer is inside its critical section writing the next value.
C3_Witness ==
    /\ \E t \in Threads : pc[t] = "deq_return"
    /\ \E t \in Threads : pc[t] \in {"enq_write_data", "enq_write_next", "enq_set_tail"}
    /\ deqOrder = << 0, 1 >>

\* every thread is between calls and the chain holds no element
Drained == NoCallRunning /\ head = tail

\* C4: conservation with any number of producers and consumers.  The values
\* handed out by dequeues are always a sub-multiset of the values whose
\* enqueue has started; when no call is running and the queue is drained, the
\* two multisets (and counts) are equal.
C4_Conservation ==
    /\ \A v \in Range(deqOrder) \cup Vals : CountIn(deqOrder, v) <= CountIn(enqStarted, v)
    /\ (queue = "alive" /\ Drained) =>
          /\ Len(deqOrder) = Len(enqStarted)
          /\ \A v \in Vals : CountIn(deqOrder, v) = CountIn(enqStarted, v)

\* C4 witness: two enqueues raced (they took the tail mutex in the opposite
\* order of their calls), everything enqueued was dequeued, no call is running.
C4_Witness ==
    /\ queue = "alive" /\ Drained
    /\ Len(enqStarted) >= 2
    /\ enqOrder # enqStarted
    /\ Len(deqOrder) = Len(enqStarted)

\* C5: global FIFO.  The k-th value handed out under the head mutex is the
\* value of the k-th enqueue that acquired the tail mutex.
C5_GlobalFifo == IsPrefix(deqOrder, enqOrder)

\* C5 witness: two dequeues handed out different values, in the order in
\* which their enqueues took the tail mutex, which is not the order of the calls.
C5_Witness ==
    /\ Len(deqOrder) >= 2
    /\ deqOrder[1] # deqOrder[2]
    /\ enqOrder # enqStarted
    /\ \E t \in Threads : pc[t] \in DeqPcs
\* C6 as claimed: a thread holding a lock stalls only same-direction calls.
\* While an enqueuer holds the tail mutex, a running dequeue that no other
\* dequeue blocks can take its next step; while a dequeuer holds the head
\* mutex, a running enqueue that no other enqueue blocks can take its next step.
C6_NoCrossDirectionStall ==
    \A e \in Threads : \A d \in Threads :
        /\ (pc[e] \in EnqPcs /\ tailLock = Some(e) /\ pc[d] \in DeqPcs
              /\ headLock \in {None, Some(d)})
             => ENABLED dequeue_steps(d)
        /\ (pc[d] \in DeqPcs /\ headLock = Some(d) /\ pc[e] \in EnqPcs
              /\ tailLock \in {None, Some(e), Some(d)})
             => ENABLED enqueue_steps(e)

\* C6 amended: only the head mutex is private to one direction.  A running
\* enqueue can take its next step exactly unless it waits for a held tail
\* mutex (so a thread holding only the head mutex never stalls an enqueue);
\* a running dequeue can take its next step exactly unless it waits for a
\* held head mutex or, in get_tail_ptr, for a held tail mutex (so a thread
\* stalled with the tail mutex stalls both directions); a dequeuer holds the
\* tail mutex only for the pointer read, together with the head mutex, and an
\* enqueuer never holds the head mutex.
C6_OnlyHeadLockIsPrivate ==
    \A t \in Threads :
        /\ pc[t] \in EnqPcs =>
             (ENABLED enqueue_steps(t) <=> ~(pc[t] = "enq_lock_tail" /\ tailLock # None))
        /\ pc[t] \in DeqPcs =>
             (ENABLED dequeue_steps(t) <=>
                ~ \/ pc[t] = "deq_lock_head" /\ headLock # None
                  \/ pc[t] = "deq_lock_tail" /\ tailLock # None)
        /\ (pc[t] \in DeqPcs /\ tailLock = Some(t)) =>
             (pc[t] = "deq_read_tail" /\ headLock = Some(t))
        /\ pc[t] \in EnqPcs => headLock # Some(t)

\* C6 witness: a dequeuer holds the head mutex, and only it, while an enqueuer
\* has acquired the tail mutex and runs its critical section.
C6_Witness ==
    \E e \in Threads : \E d \in Threads :
        /\ pc[d] \in {"deq_ptr_eq", "deq_take_data", "deq_take_next"}
        /\ headLock = Some(d)
        /\ pc[e] = "enq_write_data"
        /\ tailLock = Some(e)
\* dequeues that have taken the payload of the head node and not yet freed it
ExtractingPcs == {"deq_take_next", "deq_set_head", "deq_drop_head_box"}
Extracting    == {t \in Threads : pc[t] \in ExtractingPcs}

\* C7: node release safety.  While calls run (the queue is not being torn
\* down): no freed node is reachable from head or from tail, no freed node was
\* dereferenced, no node was freed twice, and the freed nodes are exactly one
\* per dequeue that extracted a node and dropped it: the old head, never the
\* successor the cursor moved to.
C7_NodeReleaseSafety ==
    queue = "alive" =>
        /\ (Reach(head) \cup Reach(tail)) \cap Freed = {}
        /\ ~uaf
        /\ \A n \in Nodes : freeCount[n] <= 1
        /\ Cardinality(Freed) = Len(deqOrder) - Cardinality(Extracting)
        /\ \A t \in Threads : pc[t] = "deq_return" =>
              /\ loc[t].new_head = Some(head)
              /\ freeCount[head] = 0

\* C7 witness: a dequeue has just dropped the old head (the dummy node 1)
\* while its successor, the new head, still links to further nodes.
C7_Witness ==
    /\ queue = "alive"
    /\ \E t \in Threads : pc[t] = "deq_return"
    /\ freeCount[1] = 1
    /\ head # tail
    /\ next[head] # None

\* The owner's thread runs TsQueue::drop to its end once it has started: the
\* loop takes no lock and waits for nothing.
SpecDrop == Spec /\ WF_vars(drop)

\* C8: destruction completeness.  The teardown never panics and never frees
\* a node twice; while it runs, the nodes not yet freed are exactly the chain
\* from x to the tail node; once started it ends; and when it has ended,
\* every node ever allocated has been freed exactly once.
C8_DestructionCompleteness ==
    /\ [] /\ queue # "panicked"
          /\ \A n \in Nodes : freeCount[n] <= 1
          /\ queue = "dropping" =>
                /\ x # None
                /\ Reach(x[1]) = Nodes \ Freed
                /\ tail \in Reach(x[1])
                /\ ~uaf
          /\ queue = "dropped" => \A n \in Nodes : freeCount[n] = 1
    /\ (queue = "dropping") ~> (queue = "dropped")

\* C8 witness: a queue was dropped with one of its values never dequeued,
\* after another value had been dequeued: all three nodes are freed.
C8_Witness ==
    /\ queue = "dropped"
    /\ Len(enqOrder) = 2
    /\ Len(deqOrder) = 1
    /\ Cardinality(Nodes) = 3
    /\ \A n \in Nodes : freeCount[n] = 1

\* C9: conservative emptiness.  A dequeue about to return None saw head and
\* tail on the same node at the instant of its read of tail, and at that
\* instant every value whose enqueue had gone through the tail mutex had been
\* handed out.  A dequeue that found head # tail returns a present value, and
\* that value is the one of the enqueue of the same rank: never absent, never
\* a value handed out before, never one that was not enqueued.
C9_ConservativeEmptiness ==
    \A t \in Threads :
        /\ pc[t] = "deq_return_none" => loc[t].sawEmpty
        /\ (pc[t] \in {"deq_ptr_eq", "deq_return_none"} /\ loc[t].sawEmpty) =>
              loc[t].pending = 0
        /\ pc[t] \in ExtractingPcs \cup {"deq_return"} =>
              /\ ~loc[t].sawEmpty
              /\ Len(deqOrder) \in 1..Len(enqOrder)
              /\ loc[t].data = Some(enqOrder[Len(deqOrder)])

\* C9 witness: a dequeue is about to return None although an enqueue that
\* completed after its read of tail has put a value on the chain.
C9_Witness ==
    \E t \in Threads :
        /\ pc[t] = "deq_return_none"
        /\ head # tail
        /\ Len(enqOrder) > Len(deqOrder)
        /\ tailLock = None

\* C10: no panic.  No expect/unwrap has fired, no thread has unwound, no
\* mutex is poisoned; and a dequeue that found head # tail finds a successor
\* behind the head node when it extracts it.
C10_NoPanic ==
    /\ panicMsg = {}
    /\ \A t \in Threads : pc[t] # "panicked"
    /\ ~poisoned.head /\ ~poisoned.tail
    /\ \A t \in Threads : pc[t] \in {"deq_take_data", "deq_take_next"} => next[head] # None

\* C10 witness: a dequeue has extracted the successor of the head node while
\* an enqueuer is between writing its value and linking the fresh node.
C10_Witness ==
    /\ \E t \in Threads : pc[t] = "deq_set_head" /\ loc[t].new_head # None
    /\ \E t \in Threads : pc[t] = "enq_write_next"

\* thread t takes the step of dequeue that leads from position p to position q
DeqStep(t, p, q) == pc[t] = p /\ pc'[t] = q

\* C11 as claimed: the payload a successful dequeue takes (and returns) is the
\* payload stored in the successor of the node head references.
C11_ReturnsSuccessorPayload ==
    [][\A t \in Threads :
         (DeqStep(t, "deq_take_data", "deq_take_next") /\ next[head] # None)
             => loc'[t].data = data[next[head][1]]]_vars

\* C11 amended: a successful dequeue (head # tail) takes the node referenced
\* by head, returns the payload stored in that node, advances head to that
\* node's successor and frees the node it took.  Before the take the head
\* node carries the oldest value not yet handed out and has a successor; the
\* take empties it; the link taken is its next; head moves to that successor
\* while the taken node is still owned by the call; the taken node, and not
\* the new head, is then freed; the value returned is the one taken.
C11_ReturnsHeadPayload ==
    /\ [](\A t \in Threads : pc[t] = "deq_take_data" =>
            /\ Len(deqOrder) < Len(enqOrder)
            /\ data[head] = Some(enqOrder[Len(deqOrder) + 1])
            /\ next[head] # None)
    /\ [][\A t \in Threads :
            /\ DeqStep(t, "deq_take_data", "deq_take_next") =>
                  /\ loc'[t].head_box = Some(head)
                  /\ loc'[t].data = data[head]
                  /\ data'[head] = None
                  /\ head' = head
            /\ DeqStep(t, "deq_take_next", "deq_set_head") =>
                  /\ loc[t].head_box = Some(head)
                  /\ loc'[t].new_head = next[head]
                  /\ next'[head] = None
            /\ DeqStep(t, "deq_set_head", "deq_drop_head_box") =>
                  /\ loc[t].head_box = Some(head)
                  /\ Some(head') = loc[t].new_head
                  /\ head' # head
            /\ DeqStep(t, "deq_drop_head_box", "deq_return") =>
                  /\ freeCount'[loc[t].head_box[1]] = 1
                  /\ freeCount'[head] = 0
                  /\ loc'[t].data = loc[t].data
            /\ DeqStep(t, "deq_return", "idle") =>
                  /\ head' = head
                  /\ loc[t].data = Some(enqOrder[Len(deqOrder)])
                  /\ Some(head) = loc[t].new_head]_vars

\* C11 witness: a dequeue returns the value it took out of the old head node
\* (node 1, now freed) while the successor it advanced head to carries
\* another, different value that is still to be dequeued.
C11_Witness ==
    \E t \in Threads :
        /\ pc[t] = "deq_return"
        /\ freeCount[1] = 1
        /\ loc[t].new_head = Some(head)
        /\ loc[t].data # None
        /\ data[head] # None
        /\ data[head] # loc[t].data

\* no mutex is held and the queue has not been handed to its destructor
Quiescent == headLock = None /\ tailLock = None /\ queue = "alive"

\* C12 as claimed: the sentinel is at the head.  When no lock is held, a chain
\* node has no payload if and only if it is the node head references or the
\* node tail references (which was never written when no lock is held).
C12_SentinelAtHead ==
    Quiescent => \A n \in Reach(head) : data[n] = None <=> (n = head \/ n = tail)

\* C12 amended: the empty node is at the tail.  When no lock is held, a chain
\* node has no payload if and only if it is the node tail references; every
\* other chain node, the node head references included whenever head # tail,
\* carries a payload, and the payloads along the chain are the values enqueued
\* and not yet handed out, oldest first.
C12_OpenSlotAtTail ==
    Quiescent =>
        /\ \A n \in Reach(head) : data[n] = None <=> n = tail
        /\ head # tail => data[head] = Some(enqOrder[Len(deqOrder) + 1])
        /\ Cardinality(Reach(head)) = Len(enqOrder) - Len(deqOrder) + 1

\* C12 witness: no lock is held and the chain holds two values: the head node
\* and its successor carry payloads, the third node, the tail, is empty.
C12_Witness ==
    /\ Quiescent
    /\ head # tail
    /\ data[head] # None
    /\ next[head] # None /\ next[head][1] # tail
    /\ data[next[head][1]] # None
    /\ data[tail] = None

\* the chain node n has a successor that leads back to n
OnCycle(n) == next[n] # None /\ n \in Reach(next[n][1])

\* C13: chain invariant.  When no lock is held: tail is reachable from head
\* along next; the chain from head is acyclic; no node links to head and no
\* two nodes link to the same node (one single chain); the node tail
\* references is the only chain node without a next; and head = tail exactly
\* when every value that was enqueued has been handed out.
C13_ChainInvariant ==
    Quiescent =>
        /\ tail \in Reach(head)
        /\ \A n \in Reach(head) : ~OnCycle(n)
        /\ \A n \in Nodes : next[n] # Some(head)
        /\ \A a \in Nodes : \A b \in Nodes :
              (next[a] # None /\ next[a] = next[b]) => a = b
        /\ \A n \in Reach(head) : next[n] = None <=> n = tail
        /\ head = tail <=> Len(deqOrder) = Len(enqOrder)

\* C13 witness: no lock is held, one value was dequeued (node 1 is gone) and
\* one is on the chain, so head and tail are two linked nodes; another thread
\* has allocated a node that is not yet on the chain.
C13_Witness ==
    /\ Quiescent
    /\ freeCount[1] = 1
    /\ head # tail
    /\ next[head] = Some(tail)
    /\ Len(deqOrder) = 1 /\ Len(enqOrder) = 2
    /\ \E t \in Threads : pc[t] = "deq_lock_head"

\* thread t takes the step of enqueue that leads from position p to position q
EnqStep(t, p, q) == pc[t] = p /\ pc'[t] = q

\* C14: open slot.  From the moment an enqueue has acquired the tail mutex
\* until it has written, the node tail references has no payload and no
\* successor, so line 57 and 58 overwrite nothing; when the enqueue releases
\* the mutex, the node that was the tail holds the value and links to the
\* fresh node, which tail now references and which is empty and unlinked.
C14_OpenSlot ==
    /\ [](\A t \in Threads :
            /\ pc[t] = "enq_write_data" =>
                  /\ tailLock = Some(t)
                  /\ data[tail] = None /\ next[tail] = None
                  /\ freeCount[tail] = 0
            /\ pc[t] = "enq_write_next" =>
                  /\ data[tail] = loc[t].arg /\ next[tail] = None)
    /\ [][\A t \in Threads :
            /\ EnqStep(t, "enq_write_data", "enq_write_next") =>
                  data[tail] = None /\ data'[tail] = loc[t].arg
            /\ EnqStep(t, "enq_write_next", "enq_set_tail") =>
                  next[tail] = None /\ next'[tail] = loc[t].node
            /\ EnqStep(t, "enq_return", "idle") =>
                  /\ tailLock = Some(t) /\ tailLock' = None
                  /\ Some(tail') = loc[t].node
                  /\ data'[tail'] = None /\ next'[tail'] = None
                  /\ \E n \in Nodes :
                        /\ next'[n] = Some(tail')
                        /\ data'[n] = loc[t].arg
                        /\ freeCount'[n] = 0]_vars

\* C14 witness: a second enqueue has acquired the tail mutex after a first
\* one completed: the node tail references is the empty node the first
\* enqueue appended, while the head node carries the first value.
C14_Witness ==
    \E t \in Threads :
        /\ pc[t] = "enq_write_data"
        /\ tailLock = Some(t)
        /\ head # tail
        /\ data[head] # None
        /\ data[tail] = None /\ next[tail] = None

\* thread t takes a step that is part of an enqueue call / of a dequeue call
StepOfEnqueue(t) == pc'[t] # pc[t] /\ (pc[t] \in EnqPcs \/ pc'[t] \in EnqPcs)
StepOfDequeue(t) == pc'[t] # pc[t] /\ (pc[t] \in DeqPcs \/ pc'[t] \in DeqPcs)

\* C15: frame.  An enqueue never holds the head mutex, and no step of an
\* enqueue changes the head cursor or the state of the head mutex.  No step
\* of a dequeue, successful or not, changes the tail cursor or the data, the
\* next or the allocation of the node tail references.
C15_Frame ==
    /\ [](\A t \in Threads : pc[t] \in EnqPcs => headLock # Some(t))
    /\ [][\A t \in Threads :
            /\ StepOfEnqueue(t) =>
                  /\ head' = head
                  /\ headLock' = headLock
                  /\ poisoned'.head = poisoned.head
            /\ StepOfDequeue(t) =>
                  /\ tail' = tail
                  /\ data'[tail] = data[tail]
                  /\ next'[tail] = next[tail]
                  /\ freeCount'[tail] = freeCount[tail]]_vars

\* C15 witness: a dequeue has extracted the head node and is about to free it
\* while an enqueuer that holds the tail mutex has written its value into
\* the node tail references, which is the successor of the extracted node.
C15_Witness ==
    \E d \in Threads : \E e \in Threads :
        /\ pc[d] = "deq_drop_head_box"
        /\ pc[e] = "enq_write_next"
        /\ head = tail
        /\ data[tail] # None

\* Nesting depth of the Node::drop calls made by dropping the Box of node n
\* when the links are nx: 1 for n itself plus the depth of what n links to.
RECURSIVE NodeDropDepth(_, _, _)
NodeDropDepth(nx, n, depth) ==
    IF nx[n] # None /\ depth > 0 THEN 1 + NodeDropDepth(nx, nx[n][1], depth - 1) ELSE 1

\* the nodes deallocated by the step
Released == {n \in Nodes : freeCount'[n] # freeCount[n]}

\* C16: iterative teardown.  The teardown starts at the node head references;
\* every step of it that releases anything releases exactly one node, the
\* first node of the remaining chain (x), whose next is detached when it is
\* released, so that the release has nesting depth one and does not reach the
\* successor; x moves on to that successor; the node released last is the
\* node tail references.
C16_IterativeTeardown ==
    /\ [](queue = "dropping" => (x # None /\ (freeCount[head] = 0 => x = Some(head))))
    /\ [][(queue' # "alive" /\ Released # {}) =>
            /\ Cardinality(Released) = 1
            /\ queue = "dropping"
            /\ Released = {x[1]}
            /\ next'[x[1]] = None
            /\ NodeDropDepth(next', x[1], Cardinality(Nodes)) = 1
            /\ x' = next[x[1]]
            /\ x' # None => freeCount'[x'[1]] = 0
            /\ queue' = "dropped" <=> x[1] = tail]_vars

\* C16 witness: the teardown of a chain of three nodes has released the first
\* node; the second, still linked to the third, is the next to be released.
C16_Witness ==
    /\ queue = "dropping"
    /\ Cardinality(Nodes) = 3
    /\ freeCount[head] = 1
    /\ x # None /\ x[1] # head /\ x[1] # tail
    /\ next[x[1]] = Some(tail)
    /\ freeCount[x[1]] = 0 /\ freeCount[tail] = 0

\* ranks of the values enqueued in one behaviour
Ranks == 1..(NumItems + MaxRunEnq)

\* every value whose enqueue has gone through the tail mutex is eventually
\* handed out by a dequeue, as long as the queue is alive for dequeue calls
AcquiredIsDelivered ==
    \A k \in Ranks :
        (Len(enqOrder) >= k) ~> (Len(deqOrder) >= k \/ queue # "alive")

\* C17 as claimed: under fair scheduling the consumer of the producer/consumer
\* pair eventually receives LastVal and its loop ends; and every value whose
\* enqueue completed is eventually handed out while consumers keep calling.
C17_ConsumerReceivesLast ==
    /\ (client = "pair") => <>(Received /\ pc[2] = "idle")
    /\ AcquiredIsDelivered

\* C17 amended: delivery of what was enqueued.  Under fair scheduling, with
\* finitely many enqueue calls: every value whose enqueue has acquired the
\* tail mutex is eventually handed out by a dequeue while the queue is alive
\* for dequeue calls; every dequeue call of the consumer of the pair returns;
\* and once the enqueue of LastVal has acquired the tail mutex the consumer
\* receives LastVal and its loop ends for good.  That the producer gets the
\* tail mutex is not part of it.
C17_DeliveryOfAcquired ==
    /\ AcquiredIsDelivered
    /\ (client = "pair" /\ pc[2] \in DeqPcs) ~> (pc[2] = "idle")
    /\ (client = "pair" /\ Len(enqOrder) = NumItems) ~> [](Received /\ pc[2] = "idle")

\* C17 witness: the consumer has received every value the producer sent and
\* has left its loop; both threads are outside any call.
C17_Witness ==
    /\ client = "pair"
    /\ Received /\ deqOrder = Expected
    /\ pc[2] = "idle"
    /\ pc[1] = "idle"
    /\ queue = "alive"

\* the threads inside a call, and the calls that can take their next step
Unfinished == {t \in Threads : pc[t] \in EnqPcs \cup DeqPcs}
CanStep(t) == ENABLED call_step(t)

\* the thread waits in Mutex::lock for a mutex (line 55, 64, 76)
LockPcs == {"enq_lock_tail", "deq_lock_head", "deq_lock_tail"}

\* Whenever some call is unfinished, at least one unfinished call can take
\* its next step, and a mutex is held only by a thread inside a call.
NeverAllBlocked ==
    /\ Unfinished # {} => \E t \in Unfinished : CanStep(t)
    /\ \A t \in Threads : (headLock = Some(t) \/ tailLock = Some(t)) => t \in Unfinished

\* C18 as claimed: deadlock freedom, and under fair scheduling every started
\* call eventually returns, its thread holding neither mutex.
C18_EveryCallReturns ==
    /\ []NeverAllBlocked
    /\ \A t \in Threads :
          (t \in Unfinished) ~> (pc[t] = "idle" /\ headLock # Some(t) /\ tailLock # Some(t))

\* C18 amended: deadlock freedom without freedom from starvation.  Not every
\* unfinished call waits for a mutex; a call that does not wait is exactly a
\* call that can step; under fair scheduling a thread that holds the tail
\* mutex releases it, an enqueue that has acquired the tail mutex returns, and
\* a dequeue that has acquired the tail mutex returns, each holding no mutex
\* afterwards.  A call waiting in Mutex::lock is not promised to return.
C18_DeadlockFreedom ==
    /\ []NeverAllBlocked
    /\ [](\A t \in Unfinished : pc[t] \notin LockPcs => CanStep(t))
    /\ \A t \in Threads :
          /\ (tailLock = Some(t)) ~> (tailLock # Some(t))
          /\ (t \in Unfinished /\ pc[t] \notin LockPcs)
                ~> (pc[t] = "idle" /\ headLock # Some(t) /\ tailLock # Some(t))

\* C18 witness: a dequeuer holding the head mutex waits in get_tail_ptr for
\* the tail mutex, which an enqueuer holds, while a second enqueuer waits for
\* the tail mutex too.
C18_Witness ==
    \E d \in Threads : \E e \in Threads : \E w \in Threads :
        /\ client = "runners"
        /\ pc[d] = "deq_lock_tail" /\ headLock = Some(d)
        /\ pc[e] \in {"enq_write_data", "enq_write_next", "enq_set_tail"}
        /\ tailLock = Some(e)
        /\ pc[w] = "enq_lock_tail"
        /\ ~CanStep(d) /\ ~CanStep(w)

\* C19: no phantom absence.  A dequeue goes on to extract exactly when its
\* check found head # tail; the payload of the head node it is about to take
\* is present; what it has taken, and returns, is present; and a dequeue
\* returns None only on the path of a check that found head = tail, having
\* taken nothing.
C19_NoPhantomAbsence ==
    \A t \in Threads :
        /\ pc[t] = "deq_take_data" =>
              /\ loc[t].tail_ptr # Some(head)
              /\ data[head] # None
        /\ pc[t] \in ExtractingPcs \cup {"deq_return"} =>
              /\ loc[t].data # None
              /\ ~loc[t].sawEmpty
        /\ pc[t] = "deq_return_none" =>
              /\ loc[t].tail_ptr = Some(head)
              /\ loc[t].sawEmpty
              /\ loc[t].data = None /\ loc[t].head_box = None

\* C19 witness: a dequeue has taken a present payload out of the head node
\* although the successor of that node is the empty node tail references.
C19_Witness ==
    \E t \in Threads :
        /\ pc[t] = "deq_take_next"
        /\ loc[t].data # None
        /\ next[head] = Some(tail)
        /\ data[tail] = None

\* the node whose fields the next step of dequeue in thread t reads, takes
\* from or frees (line 68-70 and the drop of head_box)
DeqAccess(t) ==
    CASE pc[t] = "deq_take_data" -> {head}
      [] pc[t] \in {"deq_take_next", "deq_drop_head_box"} -> {loc[t].head_box[1]}
      [] OTHER -> {}

\* the nodes an enqueue in thread t may still write: the node tail references
\* while it is in its critical section before line 60, and its fresh node
EnqAccess(t) ==
    (IF pc[t] \in {"enq_write_data", "enq_write_next", "enq_set_tail"} THEN {tail} ELSE {})
      \cup (IF pc[t] \in EnqPcs THEN {loc[t].node[1]} ELSE {})

\* C20: no race on node fields.  The node a dequeuer is about to read, take
\* from or free is never the node tail references and never a node an
\* enqueuer may still write; it is allocated, and tail has been advanced past
\* it: before the take it leads to the tail node over at least one link.
C20_NoRaceOnNodeFields ==
    \A d \in Threads : \A n \in DeqAccess(d) :
        /\ n # tail
        /\ freeCount[n] = 0
        /\ \A e \in Threads : n \notin EnqAccess(e)
        /\ pc[d] \in {"deq_take_data", "deq_take_next"} =>
              (next[n] # None /\ tail \in Reach(next[n][1]))

\* C20 witness: a dequeuer is about to take the payload of the head node
\* while an enqueuer, holding the tail mutex, has written the payload of the
\* node tail references, which is the successor of that head node.
C20_Witness ==
    \E d \in Threads : \E e \in Threads :
        /\ pc[d] = "deq_take_data"
        /\ pc[e] = "enq_write_next"
        /\ next[head] = Some(tail)
        /\ data[tail] # None

====
